---- MODULE Spec2Model ----
(***************************************************************************)
(* Model of the inventory normalisation pipeline (scripts/final_file.py)   *)
(* and of the paginated retrieval loops and request helpers                *)
(* (scripts/getAllInvItems.py, scripts/getOrdersForL3Mos.py).              *)
(*                                                                         *)
(* Text is modelled as a sequence of one-character strings, so that        *)
(* trimming, splitting and pattern matching are computed character by      *)
(* character as the code computes them.  Python's None is the sentinel     *)
(* None, a pandas missing cell is the sentinel NA; neither is a sequence   *)
(* of characters of the input alphabets.                                   *)
(***************************************************************************)
EXTENDS Integers, Sequences, FiniteSets, TLC

VARIABLES
    pc,         \* position of the running function
    arg,        \* argument(s) of the pure function under call
    ret,        \* its return value
    columns,    \* process_mapped_items: columns of the input sheet
    df,         \* process_mapped_items: the input rows, in sheet order
    df_f,       \* process_mapped_items: the filtered working rows
    out,        \* process_mapped_items: the output frame
    work,       \* process_mapped_items: the frame that is ranked
    loop,       \* pagination: which generator runs ("items" / "orders")
    batch_size, \* pagination: the generator's batch_size argument
    remote,     \* pagination: the remote collection (ids in remote order)
    window,     \* pagination: <<start_ms, end_ms>> of iter_orders_in_range
    offset,     \* pagination: the generator's offset
    yielded,    \* pagination: what the generator has yielded so far
    fn,         \* retries: which helper runs (its name)
    attempt,    \* retries: the attempt counter
    resp,       \* retries: the last response received
    delay,      \* retries: the argument of the pending time.sleep
    raised,     \* retries: the exception the helper ended with
    outcomes    \* retries: the outcome of every request issued so far

vars == <<pc, arg, ret, columns, df, df_f, out, work,
          loop, batch_size, remote, window, offset, yielded,
          fn, attempt, resp, delay, raised, outcomes>>

callVars == <<arg, ret>>
pipeVars == <<columns, df, df_f, out, work>>
pageVars == <<loop, batch_size, remote, window, offset, yielded>>
retryVars == <<fn, attempt, resp, delay, raised, outcomes>>

CallIdle == arg = <<>> /\ ret = <<>>
PipeIdle == columns = {} /\ df = <<>> /\ df_f = <<>> /\ out = <<>> /\ work = <<>>
PageIdle == /\ loop = "none" /\ batch_size = 0 /\ remote = <<>>
            /\ window = <<0, 0>> /\ offset = 0 /\ yielded = <<>>
RetryIdle == /\ fn = "none" /\ attempt = 0 /\ resp = <<>> /\ delay = <<>>
             /\ raised = "none" /\ outcomes = <<>>

----------------------------------------------------------------------------
(* Text helpers (Python str methods used by the code).                     *)

None == <<"<None>">>
NA   == <<"<NA>">>

Digit == {"0", "1", "2", "3", "4", "5", "6", "7", "8", "9"}

DigitVal == [c \in Digit |->
    CASE c = "0" -> 0 [] c = "1" -> 1 [] c = "2" -> 2 [] c = "3" -> 3
      [] c = "4" -> 4 [] c = "5" -> 5 [] c = "6" -> 6 [] c = "7" -> 7
      [] c = "8" -> 8 [] c = "9" -> 9]

IsSpace(c) == c = " "

RECURSIVE lstrip(_)
lstrip(s) == IF s # <<>> /\ IsSpace(Head(s)) THEN lstrip(Tail(s)) ELSE s

RECURSIVE rstrip(_)
rstrip(s) ==
    IF s # <<>> /\ IsSpace(s[Len(s)]) THEN rstrip(SubSeq(s, 1, Len(s) - 1)) ELSE s

\* str.strip()
strip(s) == rstrip(lstrip(s))

\* str(x) of a cell: a missing cell prints as "<NA>"
str(x) == IF x = NA THEN <<"<", "N", "A", ">">> ELSE x

\* str.isdigit(): non-empty and every character a digit
isdigit(s) == s # <<>> /\ \A i \in 1..Len(s) : s[i] \in Digit

\* pd.notna(x)
notna(x) == x # NA

\* int(s) of a digit string
RECURSIVE int(_)
int(s) == IF s = <<>> THEN 0 ELSE 10 * int(SubSeq(s, 1, Len(s) - 1)) + DigitVal[s[Len(s)]]

\* index of the first character of s that is in set cs, 0 when there is none
FirstIndexIn(s, cs) ==
    IF \E i \in 1..Len(s) : s[i] \in cs
    THEN CHOOSE i \in 1..Len(s) : s[i] \in cs /\ \A j \in 1..(i - 1) : s[j] \notin cs
    ELSE 0

----------------------------------------------------------------------------
(* final_file.py: numeric token normaliser.                                *)

\* _INT_OR_WHOLE_FLOAT.fullmatch(s):  ^\d+(?:\.0+)?$
INT_OR_WHOLE_FLOAT(s) ==
    \/ isdigit(s)
    \/ \E k \in 1..Len(s) :
          /\ isdigit(SubSeq(s, 1, k))
          /\ k + 2 <= Len(s)
          /\ s[k + 1] = "."
          /\ \A i \in (k + 2)..Len(s) : s[i] = "0"

\* s.split('.', 1)[0]
BeforeDot(s) ==
    LET i == FirstIndexIn(s, {"."}) IN IF i = 0 THEN s ELSE SubSeq(s, 1, i - 1)

normalize_numeric_token(s) ==
    IF s = None THEN None
    ELSE LET t == strip(str(s)) IN
         IF t = <<>> THEN None
         ELSE IF isdigit(t) THEN t
         ELSE IF INT_OR_WHOLE_FLOAT(t) THEN BeforeDot(t)
         ELSE None

\* re.split(r'[;,]', s)
RECURSIVE re_split(_)
re_split(s) ==
    LET i == FirstIndexIn(s, {";", ","}) IN
    IF i = 0 THEN <<s>>
    ELSE <<SubSeq(s, 1, i - 1)>> \o re_split(SubSeq(s, i + 1, Len(s)))

\* the for loop of first_valid_numeric_from_list over the tokens
RECURSIVE FirstValidOf(_)
FirstValidOf(tokens) ==
    IF tokens = <<>> THEN None
    ELSE LET norm == normalize_numeric_token(Head(tokens)) IN
         IF norm # None THEN norm ELSE FirstValidOf(Tail(tokens))

first_valid_numeric_from_list(s) ==
    IF s = None THEN None ELSE FirstValidOf(re_split(str(s)))

----------------------------------------------------------------------------
(* final_file.py: lookup-code selection.                                   *)

\* Python's `a or b` on optional strings: a when a is neither None nor ""
Or(a, b) == IF a # None /\ a # <<>> THEN a ELSE b

\* one side of get_lookup_code: the raw cell reduced to a digit string or ""
Side(raw) ==
    LET s == strip(str(IF notna(raw) THEN raw ELSE <<>>)) IN
    Or(Or(first_valid_numeric_from_list(s), normalize_numeric_token(s)), <<>>)

get_lookup_code_bug(code_raw, sku_raw) ==
    LET pcs == Side(code_raw)
        sk == Side(sku_raw)
    IN  IF pcs # <<>> /\ sk # <<>>
        THEN (IF int(pcs) > int(sk) THEN pcs ELSE sk)
        ELSE IF pcs # <<>> THEN pcs
        ELSE IF sk # <<>> THEN sk
        ELSE <<>>

get_lookup_code(code_raw, sku_raw) ==
    LET pcs == Side(code_raw)
        sk == Side(sku_raw)
    IN  IF pcs # <<>> /\ sk # <<>>
        THEN (IF int(pcs) >= int(sk) THEN pcs ELSE sk)
        ELSE IF pcs # <<>> THEN pcs
        ELSE IF sk # <<>> THEN sk
        ELSE <<>>

----------------------------------------------------------------------------
(* Specification of get_lookup_code calls: every pair of raw cells over    *)
(* IdAlphabet up to MaxIdLen characters, or a missing cell.                *)

MaxIdLen == 3

IdAlphabet == {"0", "1", ".", ";", " "}

RECURSIVE StringsUpTo(_, _)
StringsUpTo(alphabet, n) ==
    IF n = 0 THEN {<<>>}
    ELSE LET shorter == StringsUpTo(alphabet, n - 1) IN
         shorter \cup {<<c>> \o s : c \in alphabet, s \in {t \in shorter : Len(t) = n - 1}}

RawIds == StringsUpTo(IdAlphabet, MaxIdLen) \cup {NA}

InitResolve ==
    /\ pc = "call"
    /\ arg \in RawIds \X RawIds
    /\ ret = <<>>
    /\ PipeIdle /\ PageIdle /\ RetryIdle

CallGetLookupCode ==
    /\ pc = "call"
    /\ ret' = get_lookup_code(arg[1], arg[2])
    /\ pc' = "return"
    /\ UNCHANGED <<arg, pipeVars, pageVars, retryVars>>

NextResolve == CallGetLookupCode

SpecResolve == InitResolve /\ [][NextResolve]_vars

----------------------------------------------------------------------------
(* C3.  The first valid numeric token of a raw cell, stated from the text  *)
(* of the cell: the pieces between separators, and for a piece the digit   *)
(* string d such that the piece is blanks, d, optionally a point and one   *)
(* or more zeros, blanks.                                                  *)

C3_Pieces(s) ==
    {p \in (1..(Len(s) + 1)) \X (0..Len(s)) :
        /\ p[2] >= p[1] - 1
        /\ (p[1] = 1 \/ s[p[1] - 1] \in {";", ","})
        /\ (p[2] = Len(s) \/ s[p[2] + 1] \in {";", ","})
        /\ \A k \in p[1]..p[2] : s[k] \notin {";", ","}}

C3_Clean(t) ==
    {d \in {SubSeq(t, i, j) : i \in 1..Len(t), j \in 1..Len(t)} :
        \E i \in 1..Len(t), j \in 1..Len(t) :
            /\ i <= j /\ d = SubSeq(t, i, j)
            /\ \A k \in i..j : t[k] \in Digit
            /\ \A k \in 1..(i - 1) : t[k] = " "
            /\ \E e \in j..Len(t) :
                  /\ \A k \in (e + 1)..Len(t) : t[k] = " "
                  /\ \/ e = j
                     \/ /\ e >= j + 2
                        /\ t[j + 1] = "."
                        /\ \A k \in (j + 2)..e : t[k] = "0"}

C3_Token(raw) ==
    LET s == IF raw = NA THEN <<>> ELSE raw
        valid == {p \in C3_Pieces(s) : C3_Clean(SubSeq(s, p[1], p[2])) # {}}
    IN  IF valid = {} THEN <<>>
        ELSE LET p == CHOOSE q \in valid : \A r \in valid : q[1] <= r[1]
             IN  CHOOSE d \in C3_Clean(SubSeq(s, p[1], p[2])) : TRUE

\* C3_Token tabulated over the raw cells of the specification
C3_TokenOf == [raw \in RawIds |-> C3_Token(raw)]

\* C3: get_lookup_code returns, verbatim, the first valid numeric token of
\* the side with the larger integer value (the code side on equal values),
\* the only token when one side has none, and "" when neither has one.
C3_ResolveLargerVerbatim ==
    pc = "return" =>
        LET c == C3_TokenOf[arg[1]]
            s == C3_TokenOf[arg[2]]
        IN  /\ (c # <<>> /\ s # <<>> /\ int(c) > int(s)) => ret = c
            /\ (c # <<>> /\ s # <<>> /\ int(c) < int(s)) => ret = s
            /\ (c # <<>> /\ s # <<>> /\ int(c) = int(s)) => ret = c
            /\ (c # <<>> /\ s = <<>>) => ret = c
            /\ (c = <<>> /\ s # <<>>) => ret = s
            /\ (c = <<>> /\ s = <<>>) => ret = <<>>

\* both sides carry a token of the same value, the code side with a leading
\* zero, and the code side is returned with its leading zero
C3_Witness ==
    /\ pc = "return"
    /\ C3_TokenOf[arg[1]] # <<>> /\ C3_TokenOf[arg[2]] # <<>>
    /\ int(C3_TokenOf[arg[1]]) = int(C3_TokenOf[arg[2]])
    /\ C3_TokenOf[arg[1]] # C3_TokenOf[arg[2]]
    /\ Head(ret) = "0" /\ Len(ret) > 1
    /\ ret = C3_TokenOf[arg[1]]

----------------------------------------------------------------------------
(* final_file.py: retail rounding.  A price is a whole number of Unit-ths  *)
(* of a dollar (1/10000): a source price in whole cents times 1.13.  A     *)
(* float is <<v>>, NaN is <<>>.  The epsilon of the comparison, 1e-9, is   *)
(* one NanoPerUnit-th of a unit; float noise on such values is far below   *)
(* it, so the arithmetic is exact.                                         *)

Unit == 10000
NanoPerUnit == 100000

NaN == <<>>
Num(v) == <<v>>
isna(x) == x = NaN

\* cents = [0.29, 0.49, 0.79, 0.99], in units
cents == <<2900, 4900, 7900, 9900>>

\* math.floor(x), in dollars
floor(v) == v \div Unit

\* fractional <= c + 1e-9
LeqEps(fractional, c) == fractional * NanoPerUnit <= c * NanoPerUnit + 1

\* fractional < c + 1e-9 would be: a strict comparison
LtEps(fractional, c) == fractional * NanoPerUnit < c * NanoPerUnit

\* the for loop over cents, from position i
RECURSIVE RoundFrom(_, _, _)
RoundFrom(base, fractional, i) ==
    IF i > Len(cents) THEN (base + 1) * Unit + 2900
    ELSE IF LeqEps(fractional, cents[i]) THEN base * Unit + cents[i]
    ELSE RoundFrom(base, fractional, i + 1)

\* mutant: the roll to the next integer is lost, the last ending is used
retail_round_noroll(x) ==
    IF isna(x) THEN x
    ELSE LET base == floor(x[1])
             fractional == x[1] - base * Unit
         IN  IF \E i \in 1..Len(cents) : LeqEps(fractional, cents[i])
             THEN Num(RoundFrom(base, fractional, 1))
             ELSE Num(base * Unit + 9900)

\* mutant: the comparison with an ending is strict
retail_round_strict(x) ==
    IF isna(x) THEN x
    ELSE LET base == floor(x[1])
             fractional == x[1] - base * Unit
             hit == {i \in 1..Len(cents) : LtEps(fractional, cents[i])}
         IN  IF hit = {} THEN Num((base + 1) * Unit + 2900)
             ELSE Num(base * Unit + cents[CHOOSE i \in hit : \A j \in hit : i <= j])

retail_round(x) ==
    IF isna(x) THEN x
    ELSE LET base == floor(x[1])
             fractional == x[1] - base * Unit
         IN  Num(RoundFrom(base, fractional, 1))

----------------------------------------------------------------------------
(* Specification of retail_round calls: NaN and every non-negative price   *)
(* below MaxDollars dollars, to the unit.                                  *)

MaxDollars == 11

RoundInputs == {NaN} \cup {Num(v) : v \in 0..(MaxDollars * Unit - 1)}

InitRound ==
    /\ pc = "call"
    /\ arg \in RoundInputs
    /\ ret = <<>>
    /\ PipeIdle /\ PageIdle /\ RetryIdle

CallRetailRound ==
    /\ pc = "call"
    /\ ret' = retail_round(arg)
    /\ pc' = "return"
    /\ UNCHANGED <<arg, pipeVars, pageVars, retryVars>>

NextRound == CallRetailRound

SpecRound == InitRound /\ [][NextRound]_vars

\* the four canonical endings, in cents
C4_Endings == {29, 49, 79, 99}

\* C4: for a numeric x, retail_round(x) is never below x, is a whole number
\* of cents ending in 29, 49, 79 or 99, and is floor(x) plus the least
\* ending that is >= the fractional part of x, or floor(x) + 1.29 when the
\* fractional part exceeds all four endings.
C4_RoundUpToEnding ==
    (pc = "return" /\ arg # NaN) =>
        LET x == arg[1]
            r == ret[1]
            whole == CHOOSE d \in 0..MaxDollars : d * Unit <= x /\ x < (d + 1) * Unit
            frac == x - whole * Unit
            above == {e \in C4_Endings : e * 100 >= frac}
        IN  /\ ret # NaN
            /\ r >= x
            /\ r % 100 = 0
            /\ ((r \div 100) % 100) \in C4_Endings
            /\ above # {} =>
                 r = whole * Unit + 100 * (CHOOSE e \in above : \A f \in above : e <= f)
            /\ above = {} => r = (whole + 1) * Unit + 2900

\* a price whose fractional part exceeds .99 has been rolled to the next
\* dollar's .29
C4_Witness ==
    /\ pc = "return" /\ arg # NaN
    /\ arg[1] % Unit > 9900
    /\ ret[1] = ((arg[1] \div Unit) + 1) * Unit + 2900

\* C5 (as amended): retail_round(10.00) = 10.29, retail_round(10.30) = 10.49,
\* retail_round(10.95) = 10.99 and retail_round(10.99) = 10.99.
C5_ListedValues ==
    pc = "return" =>
        /\ arg = Num(100000) => ret = Num(102900)
        /\ arg = Num(103000) => ret = Num(104900)
        /\ arg = Num(109500) => ret = Num(109900)
        /\ arg = Num(109900) => ret = Num(109900)

\* C5 as stated: retail_round(10.95) = 11.29 (with the three other values)
C5_AsStated ==
    pc = "return" =>
        /\ arg = Num(100000) => ret = Num(102900)
        /\ arg = Num(103000) => ret = Num(104900)
        /\ arg = Num(109500) => ret = Num(112900)
        /\ arg = Num(109900) => ret = Num(109900)

\* retail_round has returned for 10.95
C5_Witness == pc = "return" /\ arg = Num(109500) /\ ret = Num(109900)

----------------------------------------------------------------------------
(* final_file.py: size / unit extraction.  A size is a float held as a     *)
(* whole number of SizeScale-ths (SizeDigits decimals).                    *)

SizeDigits == 3
SizeScale == 1000

UpperLetters == <<"A", "B", "C", "D", "E", "F", "G", "H", "I", "J", "K", "L", "M",
                  "N", "O", "P", "Q", "R", "S", "T", "U", "V", "W", "X", "Y", "Z">>
LowerLetters == <<"a", "b", "c", "d", "e", "f", "g", "h", "i", "j", "k", "l", "m",
                  "n", "o", "p", "q", "r", "s", "t", "u", "v", "w", "x", "y", "z">>

\* [A-Za-z]
IsLetter(c) == \E i \in 1..26 : UpperLetters[i] = c \/ LowerLetters[i] = c

\* str.lower()
lower(s) ==
    [i \in 1..Len(s) |->
        IF \E k \in 1..26 : UpperLetters[k] = s[i]
        THEN LowerLetters[CHOOSE k \in 1..26 : UpperLetters[k] = s[i]]
        ELSE s[i]]

\* str.split(): the words between runs of whitespace
RECURSIVE split(_)
split(s) ==
    LET t == lstrip(s) IN
    IF t = <<>> THEN <<>>
    ELSE LET i == FirstIndexIn(t, {" "}) IN
         IF i = 0 THEN <<t>>
         ELSE <<SubSeq(t, 1, i - 1)>> \o split(SubSeq(t, i + 1, Len(t)))

\* " ".join(words)
RECURSIVE join(_)
join(words) ==
    IF words = <<>> THEN <<>>
    ELSE IF Len(words) = 1 THEN words[1]
    ELSE words[1] \o <<" ">> \o join(Tail(words))

allowed == {<<"g">>, <<"l", "b">>, <<"g", "r">>, <<"k", "g">>, <<"p", "k">>,
            <<"p", "a", "c", "k">>, <<"e", "a", "c", "h">>, <<"o", "z">>,
            <<"m", "g">>, <<"m", "l">>, <<"l">>}

\* \d+(?:\.\d+)?
IsNumber(s) ==
    \/ isdigit(s)
    \/ \E j \in 1..Len(s) :
          /\ isdigit(SubSeq(s, 1, j))
          /\ j + 2 <= Len(s)
          /\ s[j + 1] = "."
          /\ isdigit(SubSeq(s, j + 2, Len(s)))

\* re.match(r'^(\d+(?:\.\d+)?)([A-Za-z]+)$', t): the end of group 1, 0 for no match
QtyMatch(t) ==
    LET ks == {k \in 1..(Len(t) - 1) :
                  /\ IsNumber(SubSeq(t, 1, k))
                  /\ \A i \in (k + 1)..Len(t) : IsLetter(t[i])}
    IN  IF ks = {} THEN 0 ELSE CHOOSE k \in ks : TRUE

RECURSIVE Pow10(_)
Pow10(n) == IF n = 0 THEN 1 ELSE 10 * Pow10(n - 1)

\* float(s) of a matched number (at most SizeDigits decimals are held)
float(s) ==
    LET i == FirstIndexIn(s, {"."}) IN
    IF i = 0 THEN int(s) * SizeScale
    ELSE LET f == SubSeq(s, i + 1, Len(s)) IN
         int(SubSeq(s, 1, i - 1)) * SizeScale + int(f) * Pow10(SizeDigits - Len(f))

\* the default triple
Default(name) == <<name, 1 * SizeScale, <<"e", "a", "c", "h">>>>

\* the match of word t, stripping the last `drop` words
TryWord(words, t, drop) ==
    LET k == QtyMatch(t) IN
    IF k = 0 THEN <<>>
    ELSE LET num == float(SubSeq(t, 1, k))
             unit == lower(SubSeq(t, k + 1, Len(t)))
         IN  IF unit \in allowed
             THEN <<join(SubSeq(words, 1, Len(words) - drop)), num, unit>>
             ELSE <<>>

\* mutant: the "<qty> each" rule is dropped, only the last word is inspected
extract_size_and_unit_norule1(name) ==
    IF name = NA THEN Default(name)
    ELSE LET words == split(strip(name)) IN
         IF words = <<>> THEN Default(name)
         ELSE LET r2 == TryWord(words, words[Len(words)], 1) IN
              IF r2 # <<>> THEN r2 ELSE Default(name)

extract_size_and_unit(name) ==
    IF name = NA THEN Default(name)
    ELSE LET words == split(strip(name)) IN
         IF words = <<>> THEN Default(name)
         ELSE LET r1 == IF lower(words[Len(words)]) = <<"e", "a", "c", "h">> /\ Len(words) >= 2
                        THEN TryWord(words, words[Len(words) - 1], 2)
                        ELSE <<>>
                  r2 == TryWord(words, words[Len(words)], 1)
              IN  IF r1 # <<>> THEN r1
                  ELSE IF r2 # <<>> THEN r2
                  ELSE Default(name)

----------------------------------------------------------------------------
(* Specification of extract_size_and_unit calls.  A name is the text of up *)
(* to MaxWords words of Vocabulary, written with single blanks or with     *)
(* leading, doubled and trailing blanks; or a missing (non-string) cell.   *)
(* Each word of Vocabulary carries what it is: the word "each" (each), a   *)
(* quantity with its number and lowercase unit (qty), or neither.          *)

MaxWords == 3

Vocabulary ==
    {
     [w |-> <<"T", "e", "a">>, each |-> FALSE, qty |-> <<>>],
     [w |-> <<"e", "a", "c", "h">>, each |-> TRUE, qty |-> <<>>],
     [w |-> <<"E", "A", "C", "H">>, each |-> TRUE, qty |-> <<>>],
     [w |-> <<"5", "g">>, each |-> FALSE, qty |-> <<5000, <<"g">>>>],
     [w |-> <<"5", "0", "G">>, each |-> FALSE, qty |-> <<50000, <<"g">>>>],
     [w |-> <<"2", ".", "5", "p", "k">>, each |-> FALSE, qty |-> <<2500, <<"p", "k">>>>],
     [w |-> <<"1", "2", "P", "a", "c", "k">>, each |-> FALSE, qty |-> <<12000, <<"p", "a", "c", "k">>>>],
     [w |-> <<"1", "e", "a", "c", "h">>, each |-> FALSE, qty |-> <<1000, <<"e", "a", "c", "h">>>>],
     [w |-> <<"5", "x">>, each |-> FALSE, qty |-> <<>>],
     [w |-> <<"g", "5">>, each |-> FALSE, qty |-> <<>>],
     [w |-> <<"5">>, each |-> FALSE, qty |-> <<>>],
     [w |-> <<"5", ".", "g">>, each |-> FALSE, qty |-> <<>>],
     [w |-> <<"0", ".", "7", "5", "l">>, each |-> FALSE, qty |-> <<750, <<"l">>>>]
    }

RECURSIVE SeqsUpTo(_, _)
SeqsUpTo(S, n) ==
    IF n = 0 THEN {<<>>}
    ELSE LET shorter == SeqsUpTo(S, n - 1) IN
         shorter \cup {<<x>> \o s : x \in S, s \in {u \in shorter : Len(u) = n - 1}}

\* the text of word list ws with `lead` before, `gap` between and `trail` after
RECURSIVE Render(_, _, _, _)
Render(ws, lead, gap, trail) ==
    IF ws = <<>> THEN lead \o trail
    ELSE IF Len(ws) = 1 THEN lead \o ws[1].w \o trail
    ELSE lead \o ws[1].w \o Render(Tail(ws), gap, gap, trail)

Spacings == {<< <<>>, <<" ">>, <<>> >>, << <<" ">>, <<" ", " ">>, <<" ">> >>}

ExtractInputs ==
    {[name |-> Render(ws, sp[1], sp[2], sp[3]), words |-> ws] :
        ws \in SeqsUpTo(Vocabulary, MaxWords), sp \in Spacings}
    \cup {[name |-> NA, words |-> <<>>]}

InitExtract ==
    /\ pc = "call"
    /\ arg \in ExtractInputs
    /\ ret = <<>>
    /\ PipeIdle /\ PageIdle /\ RetryIdle

CallExtractSizeAndUnit ==
    /\ pc = "call"
    /\ ret' = extract_size_and_unit(arg.name)
    /\ pc' = "return"
    /\ UNCHANGED <<arg, pipeVars, pageVars, retryVars>>

NextExtract == CallExtractSizeAndUnit

SpecExtract == InitExtract /\ [][NextExtract]_vars

\* the unit vocabulary of the claim
C9_Units == {<<"g">>, <<"l", "b">>, <<"g", "r">>, <<"k", "g">>, <<"p", "k">>,
             <<"p", "a", "c", "k">>, <<"e", "a", "c", "h">>, <<"o", "z">>,
             <<"m", "g">>, <<"m", "l">>, <<"l">>}

\* the first n words of ws, written with single blanks
C9_Remaining(ws, n) == Render(SubSeq(ws, 1, n), <<>>, <<" ">>, <<>>)

C9_Rule1(ws) ==
    Len(ws) >= 2 /\ ws[Len(ws)].each /\ ws[Len(ws) - 1].qty # <<>>

C9_Rule2(ws) == Len(ws) >= 1 /\ ws[Len(ws)].qty # <<>>

\* C9: a name ending in "<quantity> each" loses both words and yields the
\* quantity's number and unit; otherwise a name ending in a quantity loses
\* that word and yields its number and unit; otherwise the name is returned
\* unchanged with (1, "each").  The unit returned is always an allowed one.
\* (A quantity is a number, digits with an optional decimal part, followed
\* by letters that name an allowed unit in any case.)
C9_ExtractRules ==
    pc = "return" =>
        LET ws == arg.words
            n == Len(ws)
        IN  /\ ret[3] \in C9_Units
            /\ C9_Rule1(ws) =>
                 ret = <<C9_Remaining(ws, n - 2), ws[n - 1].qty[1], ws[n - 1].qty[2]>>
            /\ (~C9_Rule1(ws) /\ C9_Rule2(ws)) =>
                 ret = <<C9_Remaining(ws, n - 1), ws[n].qty[1], ws[n].qty[2]>>
            /\ (~C9_Rule1(ws) /\ ~C9_Rule2(ws)) =>
                 ret = <<arg.name, 1 * SizeScale, <<"e", "a", "c", "h">>>>

\* rule 1 has stripped "<quantity> each" from a name of three words written
\* with irregular blanks
C9_Witness ==
    /\ pc = "return"
    /\ Len(arg.words) = 3 /\ C9_Rule1(arg.words)
    /\ Head(arg.name) = " "
    /\ ret[1] = arg.words[1].w
    /\ ret[2] = arg.words[2].qty[1]

----------------------------------------------------------------------------
(* final_file.py: process_mapped_items.  An input row is a record          *)
(*   [name, code, sku, price, priceType, unit_count];                      *)
(* price is the cell as pd.to_numeric reads it: Num(c), c whole cents (the *)
(* sheet holds c / 100 dollars), or NaN for an unparseable cell.  A        *)
(* missing unit_count is NaN.  The rows of df carry their index label idx, *)
(* which every derived frame keeps.                                        *)

required == {"name", "code", "sku", "price", "priceType"}

\* 1.13, per cent
Markup == 113

\* s contains pat
Contains(s, pat) ==
    \E i \in 1..(Len(s) - Len(pat) + 1) : SubSeq(s, i, i + Len(pat) - 1) = pat

\* .astype(str).str.contains(r'case|dozen', case=False, na=False)
IsBulk(name) ==
    \/ Contains(lower(str(name)), <<"c", "a", "s", "e">>)
    \/ Contains(lower(str(name)), <<"d", "o", "z", "e", "n">>)

\* isna() | (astype(str).str.strip() == "")
IsBlank(cell) == cell = NA \/ strip(str(cell)) = <<>>

\* mutant: the sku is tested with first_valid_numeric_from_list
valid_row_firstvalid(r) ==
    ~(IsBlank(r.code) /\ first_valid_numeric_from_list(r.sku) = None)

\* _valid_row
valid_row(r) == ~(IsBlank(r.code) /\ normalize_numeric_token(r.sku) = None)

\* map_cost_unit
map_cost_unit(x) ==
    LET s == lower(strip(str(x))) IN
    IF s \in {<<"f", "i", "x", "e", "d">>, <<"f", "i", "x">>, <<"f", "i", "x", "e", "d", " ", "p", "r", "i", "c", "e">>, <<"f", "i", "x", "e", "d", "_", "p", "r", "i", "c", "e">>, <<"f", "i", "x", "e", "d", "p", "r", "i", "c", "e">>}
    THEN <<"e", "a", "c", "h">>
    ELSE IF s \in {<<"p", "e", "r", " ", "u", "n", "i", "t">>, <<"p", "e", "r", "_", "u", "n", "i", "t">>, <<"p", "e", "r", "u", "n", "i", "t">>}
    THEN <<"l", "b">>
    ELSE <<>>

\* pd.to_numeric(price, errors="coerce") * 1.13, in units
base_price(price) == IF isna(price) THEN NaN ELSE Num(price[1] * Markup)

\* Series.round() of a size: to the nearest integer, a half to the even one
round(size) ==
    LET q == size \div SizeScale
        r == size % SizeScale
    IN  IF 2 * r < SizeScale THEN q
        ELSE IF 2 * r > SizeScale THEN q + 1
        ELSE IF q % 2 = 0 THEN q ELSE q + 1

\* lines 117-131: the derived row of a working row
DeriveRow(r, cols) ==
    LET e == extract_size_and_unit(r.name) IN
    [idx |-> r.idx,
     cost_price_per_unit |-> retail_round(base_price(r.price)),
     cost_unit |-> map_cost_unit(r.priceType),
     lookup_code |-> get_lookup_code(r.code, r.sku),
     name |-> e[1],
     size |-> e[2],
     size_uom |-> e[3],
     unit_count |-> IF "unit_count" \in cols THEN r.unit_count ELSE NaN,
     alcoholic |-> FALSE]

\* mutant: the pack count always overwrites unit_count
PackRow_overwrite(o) ==
    IF o.size_uom \in {<<"p", "k">>, <<"p", "a", "c", "k">>}
    THEN [o EXCEPT !.unit_count = Num(round(o.size)), !.size = 1 * SizeScale]
    ELSE o

\* lines 132-135: pack reconciliation of one row
PackRow(o) ==
    IF o.size_uom \in {<<"p", "k">>, <<"p", "a", "c", "k">>}
    THEN [o EXCEPT !.unit_count = IF isna(o.unit_count) THEN Num(round(o.size))
                                  ELSE o.unit_count,
                   !.size = 1 * SizeScale]
    ELSE o

\* line 139: to_numeric(...).fillna(-inf) as a sort key, -inf below every number
price_for_rank(x) == IF isna(x) THEN <<0, 0>> ELSE <<1, x[1]>>

KeyGt(a, b) == a[1] > b[1] \/ (a[1] = b[1] /\ a[2] > b[2])

\* mutant: rank(method="min"): tied rows share the rank
rank_min(w, i) ==
    1 + Cardinality({j \in 1..Len(w) :
            /\ w[j].lookup_code = w[i].lookup_code
            /\ KeyGt(price_for_rank(w[j].cost_price_per_unit),
                     price_for_rank(w[i].cost_price_per_unit))})

\* mutant: rank(ascending=True): the lowest price ranks first
rank_ascending(w, i) ==
    1 + Cardinality({j \in 1..Len(w) :
            /\ w[j].lookup_code = w[i].lookup_code
            /\ \/ KeyGt(price_for_rank(w[i].cost_price_per_unit),
                        price_for_rank(w[j].cost_price_per_unit))
               \/ /\ price_for_rank(w[j].cost_price_per_unit)
                       = price_for_rank(w[i].cost_price_per_unit)
                  /\ j < i})

\* line 140: groupby("lookup_code").rank(method="first", ascending=False) of row i
rank(w, i) ==
    1 + Cardinality({j \in 1..Len(w) :
            /\ w[j].lookup_code = w[i].lookup_code
            /\ \/ KeyGt(price_for_rank(w[j].cost_price_per_unit),
                        price_for_rank(w[i].cost_price_per_unit))
               \/ /\ price_for_rank(w[j].cost_price_per_unit)
                       = price_for_rank(w[i].cost_price_per_unit)
                  /\ j < i})

\* the rows of f at the positions in set P, in order
RECURSIVE AtPositions(_, _, _)
AtPositions(f, P, i) ==
    IF i > Len(f) THEN <<>>
    ELSE (IF i \in P THEN <<f[i]>> ELSE <<>>) \o AtPositions(f, P, i + 1)

\* df with the index labels 1..n
WithIndex(rows) ==
    [i \in 1..Len(rows) |->
        [idx |-> i, name |-> rows[i].name, code |-> rows[i].code, sku |-> rows[i].sku,
         price |-> rows[i].price, priceType |-> rows[i].priceType,
         unit_count |-> rows[i].unit_count]]

----------------------------------------------------------------------------
(* Specification of process_mapped_items runs: a sheet of up to MaxRows    *)
(* rows of RowPool, with all required columns (with or without the         *)
(* optional unit_count column) or with one required column missing.        *)

MaxRows == 3

RowPool ==
    {
     [name |-> <<"T", "e", "a">>, code |-> <<"7">>, sku |-> NA,
      price |-> Num(100), priceType |-> <<"F", "I", "X", "E", "D">>, unit_count |-> NaN],
     [name |-> <<"R", "i", "c", "e", " ", "5", "k", "g">>, code |-> <<"0", "7">>, sku |-> <<"7">>,
      price |-> Num(300), priceType |-> <<"P", "E", "R", "_", "U", "N", "I", "T">>, unit_count |-> NaN],
     [name |-> <<"C", "o", "l", "a", " ", "6", "p", "k">>, code |-> NA, sku |-> <<"7", ".", "0">>,
      price |-> Num(300), priceType |-> <<"F", "I", "X", "E", "D">>, unit_count |-> NaN],
     [name |-> <<"G", "u", "m", " ", "2", ".", "5", "p", "a", "c", "k">>, code |-> <<"7">>, sku |-> <<"1", "2">>,
      price |-> NaN, priceType |-> <<"F", "I", "X", "E", "D">>, unit_count |-> Num(4)],
     [name |-> <<"T", "e", "a">>, code |-> <<" ">>, sku |-> <<"3", ";", "1", "2">>,
      price |-> Num(100), priceType |-> <<"F", "I", "X", "E", "D">>, unit_count |-> NaN],
     [name |-> <<"T", "e", "a">>, code |-> <<"a", "b">>, sku |-> <<".">>,
      price |-> Num(100), priceType |-> <<"F", "I", "X", "E", "D">>, unit_count |-> NaN],
     [name |-> <<"S", "h", "o", "w", "c", "a", "s", "e", " ", "5", "g">>, code |-> <<"7">>, sku |-> <<"7">>,
      price |-> Num(500), priceType |-> <<"F", "I", "X", "E", "D">>, unit_count |-> NaN],
     [name |-> <<"T", "e", "a">>, code |-> NA, sku |-> NA,
      price |-> Num(100), priceType |-> <<"F", "I", "X", "E", "D">>, unit_count |-> NaN],
     [name |-> <<"T", "e", "a">>, code |-> <<"1", "2">>, sku |-> NA,
      price |-> NaN, priceType |-> <<"F", "I", "X", "E", "D">>, unit_count |-> NaN],
     [name |-> <<"T", "e", "a">>, code |-> <<"7">>, sku |-> NA,
      price |-> Num(300), priceType |-> <<"V", "A", "R", "I", "A", "B", "L", "E">>, unit_count |-> NaN],
     [name |-> <<"N", "u", "t", "s", " ", "1", "2", "P", "a", "c", "k">>, code |-> <<"a", ";", "1", "2">>, sku |-> NA,
      price |-> Num(100), priceType |-> <<"F", "I", "X", "E", "D">>, unit_count |-> NaN],
     [name |-> <<"G", "u", "m", " ", "2", ".", "5", "p", "a", "c", "k">>, code |-> <<"9">>, sku |-> NA,
      price |-> Num(88), priceType |-> <<"F", "I", "X", "E", "D">>, unit_count |-> NaN]
    }

ColumnSets ==
    {required \cup {"unit_count"}, required}
    \cup {(required \cup {"unit_count"}) \ {c} : c \in required}

\* the rows as a sheet with columns cols holds them
Sheet(rows, cols) ==
    [i \in 1..Len(rows) |->
        IF "unit_count" \in cols THEN rows[i] ELSE [rows[i] EXCEPT !.unit_count = NaN]]

InitPipeline ==
    /\ pc = "start"
    /\ columns \in ColumnSets
    /\ df \in {Sheet(rows, columns) : rows \in SeqsUpTo(RowPool, MaxRows)}
    /\ df_f = <<>> /\ out = <<>> /\ work = <<>>
    /\ CallIdle /\ PageIdle /\ RetryIdle

\* lines 104-107: a missing required column raises KeyError
Validate ==
    /\ pc = "start"
    /\ LET missing == {c \in required : c \notin columns} IN
       pc' = IF missing # {} THEN "KeyError" ELSE "A"
    /\ UNCHANGED <<callVars, pipeVars, pageVars, retryVars>>

\* line 109: bulk-pack exclusion
StageA ==
    /\ pc = "A"
    /\ LET Keep(r) == ~IsBulk(r.name) IN df_f' = SelectSeq(WithIndex(df), Keep)
    /\ pc' = "B"
    /\ UNCHANGED <<callVars, columns, df, out, work, pageVars, retryVars>>

\* lines 110-116: identifier presence filter
StageB ==
    /\ pc = "B"
    /\ LET KeepB1(r) == ~(IsBlank(r.code) /\ IsBlank(r.sku))
           KeepB2(r) == valid_row(r)
       IN  df_f' = SelectSeq(SelectSeq(df_f, KeepB1), KeepB2)
    /\ pc' = "C"
    /\ UNCHANGED <<callVars, columns, df, out, work, pageVars, retryVars>>

\* lines 117-131: field derivation.  On a frame without rows neither
\* DataFrame.apply(axis=1) nor Series.apply returns a frame of the derived
\* columns: Series.apply returns an empty Series, and assigning it to the
\* three columns of line 130 raises ValueError ("Columns must be same length
\* as key") in pandas since 1.4, while older releases assign nothing and go
\* on with an empty frame.  The release is not pinned: both outcomes.
StageC ==
    /\ pc = "C"
    /\ IF df_f = <<>>
       THEN \/ pc' = "ValueError" /\ out' = out
            \/ pc' = "D" /\ out' = <<>>
       ELSE /\ out' = [i \in 1..Len(df_f) |-> DeriveRow(df_f[i], columns)]
            /\ pc' = "D"
    /\ UNCHANGED <<callVars, columns, df, df_f, work, pageVars, retryVars>>

\* lines 132-136: pack reconciliation, alcoholic = False
StageDE ==
    /\ pc = "D"
    /\ out' = [i \in 1..Len(out) |-> PackRow(out[i])]
    /\ pc' = "F"
    /\ UNCHANGED <<callVars, columns, df, df_f, work, pageVars, retryVars>>

\* line 137: empty lookup_code filter
StageF ==
    /\ pc = "F"
    /\ LET Keep(o) == strip(str(o.lookup_code)) # <<>> IN out' = SelectSeq(out, Keep)
    /\ pc' = "G"
    /\ UNCHANGED <<callVars, columns, df, df_f, work, pageVars, retryVars>>

\* lines 138-142: deduplication
StageG ==
    /\ pc = "G"
    /\ work' = out
    /\ out' = AtPositions(out, {i \in 1..Len(out) : rank(out, i) = 1}, 1)
    /\ pc' = "done"
    /\ UNCHANGED <<callVars, columns, df, df_f, pageVars, retryVars>>

NextPipeline ==
    \/ Validate
    \/ StageA
    \/ StageB
    \/ StageC
    \/ StageDE
    \/ StageF
    \/ StageG

SpecPipeline == InitPipeline /\ [][NextPipeline]_vars

----------------------------------------------------------------------------
(* Claims about process_mapped_items.                                      *)

\* C1: the output of a run on a sheet with all required columns has a
\* non-empty lookup_code in every record and no lookup_code twice.
C1_LookupCodesNonEmptyUnique ==
    pc = "done" =>
        /\ \A i \in 1..Len(out) :
              out[i].lookup_code # <<>> /\ \E k \in 1..Len(out[i].lookup_code) :
                                              out[i].lookup_code[k] # " "
        /\ \A i, j \in 1..Len(out) :
              i # j => out[i].lookup_code # out[j].lookup_code

\* two ranked rows shared a lookup_code and two records were output
C1_Witness ==
    /\ pc = "done"
    /\ \E i, j \in 1..Len(work) : i # j /\ work[i].lookup_code = work[j].lookup_code
    /\ Len(out) >= 2

\* price a ranks above price b: a number above a missing price or a smaller number
C2_Higher(a, b) == a # NaN /\ (b = NaN \/ a[1] > b[1])

\* row i of frame w wins its lookup_code group
C2_Winner(w, i) ==
    \A j \in 1..Len(w) :
        (j # i /\ w[j].lookup_code = w[i].lookup_code) =>
            /\ ~C2_Higher(w[j].cost_price_per_unit, w[i].cost_price_per_unit)
            /\ ~C2_Higher(w[i].cost_price_per_unit, w[j].cost_price_per_unit) => i < j

\* C2: the output is the subsequence, in input order, of the group winners
\* of the records that reach Stage G: one record per lookup_code, the one
\* with the highest price (a missing price below every number), the
\* earliest of several; with all lookup_codes distinct nothing is removed.
C2_DedupKeepsGroupWinners ==
    pc = "done" =>
        LET W == {i \in 1..Len(work) : C2_Winner(work, i)}
            Kth(k) == CHOOSE i \in W : Cardinality({j \in W : j < i}) = k - 1
        IN  /\ Len(out) = Cardinality(W)
            /\ \A k \in 1..Len(out) : out[k] = work[Kth(k)]
            /\ \A i \in 1..Len(work) :
                  Cardinality({k \in 1..Len(out) :
                                  out[k].lookup_code = work[i].lookup_code}) = 1
            /\ \A k \in 1..(Len(out) - 1) : out[k].idx < out[k + 1].idx
            /\ (\A i, j \in 1..Len(work) :
                   i # j => work[i].lookup_code # work[j].lookup_code)
                 => out = work

\* of three rows of one group the second won: on price over the first, as
\* the earlier one over the third, which has the same price
C2_Witness ==
    /\ pc = "done"
    /\ \E i, j, l \in 1..Len(work) :
          /\ i < j /\ j < l
          /\ work[i].lookup_code = work[j].lookup_code
          /\ work[j].lookup_code = work[l].lookup_code
          /\ C2_Higher(work[j].cost_price_per_unit, work[i].cost_price_per_unit)
          /\ work[j].cost_price_per_unit = work[l].cost_price_per_unit
          /\ out = <<work[j]>>

\* C6: with a required column missing the run aborts before any row is
\* filtered or transformed and leaves no output; with all required columns
\* the run does not abort.
C6_AbortsOnlyOnMissingColumns ==
    /\ (required \ columns # {}) =>
          /\ pc \in {"start", "KeyError"}
          /\ df_f = <<>> /\ out = <<>> /\ work = <<>>
    /\ (required \subseteq columns) => pc \notin {"KeyError", "ValueError"}

\* a cell is blank: missing, or nothing but blanks
C7_Blank(cell) == cell = NA \/ \A i \in 1..Len(cell) : cell[i] = " "

\* the sku, as one whole trimmed string, is a clean numeric token
C7_CleanSku(sku) == sku # NA /\ C3_Clean(sku) # {}

C7_PassesA(r) ==
    r.name = NA \/
        /\ \A i \in 1..(Len(r.name) - 3) :
              lower(SubSeq(r.name, i, i + 3)) # <<"c", "a", "s", "e">>
        /\ \A i \in 1..(Len(r.name) - 4) :
              lower(SubSeq(r.name, i, i + 4)) # <<"d", "o", "z", "e", "n">>

C7_PassesB(r) == ~C7_Blank(r.code) \/ C7_CleanSku(r.sku)

C7_Candidate(r) ==
    /\ C7_PassesA(r)
    /\ C7_PassesB(r)
    /\ get_lookup_code(r.code, r.sku) # <<>>

\* the index labels of frame f
C7_Labels(f) == {f[i].idx : i \in 1..Len(f)}

\* the predicates of C7 tabulated over the rows of the specification
C7_Of ==
    [x \in {<<r.name, r.code, r.sku>> : r \in RowPool} |->
        LET r == [name |-> x[1], code |-> x[2], sku |-> x[3]] IN
        [passesAB |-> C7_PassesA(r) /\ C7_PassesB(r),
         candidate |-> C7_Candidate(r),
         droppedByF |-> /\ C7_PassesA(r) /\ C7_PassesB(r)
                        /\ ~C7_Blank(r.code)
                        /\ C3_Token(r.code) = <<>>
                        /\ C3_Token(r.sku) = <<>>]]

C7_Row(r) == C7_Of[<<r.name, r.code, r.sku>>]

\* C7: the records that reach deduplication are exactly those with no
\* 'case'/'dozen' in the name, a non-blank code or a sku that is as a whole
\* a clean numeric token, and a non-empty resolved code; Stage F removes
\* exactly the records past A and B with a non-blank code and no valid
\* numeric token in code or sku.
C7_CandidatesExactly ==
    /\ pc \in {"G", "done"} =>
          LET survivors == IF pc = "G" THEN out ELSE work IN
          /\ C7_Labels(survivors) = {i \in 1..Len(df) : C7_Row(df[i]).candidate}
          /\ C7_Labels(df_f) \ C7_Labels(survivors) =
                {i \in 1..Len(df) : C7_Row(df[i]).droppedByF}
    /\ pc \in {"C", "D", "F", "ValueError"} =>
          C7_Labels(df_f) = {i \in 1..Len(df) : C7_Row(df[i]).passesAB}

\* Stage B dropped a record whose sku resolves to a code, Stage F dropped a
\* record, and a record survived
C7_Witness ==
    /\ pc = "done"
    /\ \E i \in 1..Len(df) :
          /\ C7_PassesA(df[i]) /\ ~C7_PassesB(df[i])
          /\ C3_Token(df[i].sku) # <<>>
          /\ i \notin C7_Labels(df_f)
    /\ C7_Labels(df_f) \ C7_Labels(work) # {}
    /\ work # <<>>

C8_PackUnits == {<<"p", "k">>, <<"p", "a", "c", "k">>}

\* the size extracted from a name, tabulated over the names of the specification
C8_SizeOf == [n \in {r.name : r \in RowPool} |-> extract_size_and_unit(n)[2]]

\* C8: an output record with unit pk or pack has size 1 and a unit_count:
\* the source's when it had one, else the extracted size rounded to an
\* integer; any other record keeps its extracted size and the source's
\* unit_count.
C8_PackReconciled ==
    pc = "done" =>
        \A k \in 1..Len(out) :
            LET o == out[k]
                src == df[o.idx]
                size == C8_SizeOf[src.name]
            IN  IF o.size_uom \in C8_PackUnits
                THEN /\ o.size = 1 * SizeScale
                     /\ o.unit_count # NaN
                     /\ src.unit_count # NaN => o.unit_count = src.unit_count
                     /\ src.unit_count = NaN =>
                          /\ 2 * (o.unit_count[1] * SizeScale - size) <= SizeScale
                          /\ 2 * (size - o.unit_count[1] * SizeScale) <= SizeScale
                ELSE /\ o.size = size
                     /\ o.unit_count = src.unit_count

\* a pack record without a source unit_count got its count from a size of
\* 2.5, and a pack record with a source unit_count kept it
C8_Witness ==
    /\ pc = "done"
    /\ \E k \in 1..Len(out) :
          /\ out[k].size_uom \in C8_PackUnits
          /\ df[out[k].idx].unit_count = NaN
          /\ 2 * extract_size_and_unit(df[out[k].idx].name)[2] = 5 * SizeScale
          /\ out[k].unit_count = Num(2)
    /\ \E k \in 1..Len(out) :
          /\ out[k].size_uom \in C8_PackUnits
          /\ df[out[k].idx].unit_count # NaN
          /\ out[k].unit_count = df[out[k].idx].unit_count
          /\ out[k].unit_count # Num(round(extract_size_and_unit(df[out[k].idx].name)[2]))

----------------------------------------------------------------------------
(* getAllInvItems.py, getOrdersForL3Mos.py: the page loops.  The remote    *)
(* collection does not change during a run; an item is its position in     *)
(* the collection, an order is its createdTime (orders are listed in the   *)
(* order of their creation, one per millisecond).  Every request succeeds. *)

\* "limit": min(limit, 1000)
API_CAP == 1000

Min(a, b) == IF a <= b THEN a ELSE b

\* the endpoint: at most `limit` elements of coll from `off` on
Page(coll, off, limit) == SubSeq(coll, off + 1, Min(off + limit, Len(coll)))

\* get_items(offset=, limit=)
get_items(off, limit) == Page(remote, off, Min(limit, API_CAP))

\* createdTime>=start_ms, createdTime<end_ms
InWindow(ct) == window[1] <= ct /\ ct < window[2]

\* the request of iter_orders_in_range: the endpoint applies both filters
get_orders(off) ==
    Page(SelectSeq(remote, InWindow), off, Min(batch_size, API_CAP))

MaxSmallBatch == 3
MaxSmallCount == 7

BatchSizes == (1..MaxSmallBatch) \cup {API_CAP - 1, API_CAP, API_CAP + 1}

Counts == (0..MaxSmallCount)
          \cup {API_CAP - 1, API_CAP, API_CAP + 1, 2 * API_CAP, 2 * API_CAP + 1}

InitPages ==
    /\ pc = "fetch"
    /\ loop \in {"items", "orders"}
    /\ batch_size \in BatchSizes
    /\ \E n \in Counts :
          /\ remote = [i \in 1..n |-> i]
          /\ IF loop = "items" THEN window = <<0, 0>>
             ELSE window \in {<<1, n + 1>>, <<2, n>>}
    /\ offset = 0
    /\ yielded = <<>>
    /\ CallIdle /\ PipeIdle /\ RetryIdle

\* one turn of the while loop of iter_all_items
IterAllItemsPage ==
    /\ pc = "fetch" /\ loop = "items"
    /\ LET chunk == get_items(offset, batch_size) IN
       IF chunk = <<>>
       THEN pc' = "stop" /\ UNCHANGED <<yielded, offset>>
       ELSE /\ yielded' = yielded \o chunk
            /\ IF Len(chunk) < batch_size
               THEN pc' = "stop" /\ offset' = offset
               ELSE pc' = "fetch" /\ offset' = offset + batch_size
    /\ UNCHANGED <<callVars, pipeVars, retryVars, loop, batch_size, remote, window>>

\* one turn of the while loop of iter_orders_in_range
IterOrdersPage ==
    /\ pc = "fetch" /\ loop = "orders"
    /\ LET orders == get_orders(offset) IN
       IF orders = <<>>
       THEN pc' = "stop" /\ UNCHANGED <<yielded, offset>>
       ELSE /\ yielded' = yielded \o SelectSeq(orders, InWindow)
            /\ IF Len(orders) < batch_size
               THEN pc' = "stop" /\ offset' = offset
               ELSE pc' = "fetch" /\ offset' = offset + batch_size
    /\ UNCHANGED <<callVars, pipeVars, retryVars, loop, batch_size, remote, window>>

NextPages == IterAllItemsPage \/ IterOrdersPage

SpecPages == InitPages /\ [][NextPages]_vars

\* what the generator is to yield: the collection, or its orders in the window
C10_Expected == IF loop = "items" THEN remote ELSE SelectSeq(remote, InWindow)

\* C10: for every batch_size >= 1 the generator, once stopped, has yielded
\* every element of the collection exactly once, in order.
C10_YieldsAllOnce == pc = "stop" => yielded = C10_Expected

\* the same for batch sizes up to the endpoint's cap, where it holds
C10_YieldsAllOnceUpToCap ==
    (pc = "stop" /\ batch_size <= API_CAP) => yielded = C10_Expected

----------------------------------------------------------------------------
(* getAllInvItems.py / getOrdersForL3Mos.py: the request helpers           *)
(* _request_with_retries and request_with_retries.  One remote call has    *)
(* one of the outcomes: a transport exception (no response), or a response *)
(* with a status code and possibly a Retry-After header; `outcomes` logs   *)
(* for every request issued whether it raised ("exception"), was answered  *)
(* with a status of the retry list ("retryable") or otherwise ("other").   *)
(* Delays are in units of 1/SizeScale second.  A request ends              *)
(* (requests.request returns or raises within its timeouts) and a sleep of *)
(* a finite length ends.                                                   *)

MAX_RETRIES == 5

\* RETRY_BASE_DELAY = 1.0 (seconds)
RETRY_BASE_DELAY == 1 * SizeScale

\* resp.status_code in (429, 500, 502, 503, 504)
RETRYABLE == {429, 500, 502, 503, 504}

\* the status codes the remote answers with
Statuses == {200, 204, 304, 400, 404} \cup RETRYABLE

\* Response.raise_for_status(): HTTPError for 400 <= status_code < 600
raises_for_status(status_code) == 400 <= status_code /\ status_code < 600

exhausted_late(a) == a > MAX_RETRIES + 1

\* `attempt > MAX_RETRIES`
exhausted(a) == a > MAX_RETRIES

RECURSIVE Pow2(_)
Pow2(n) == IF n = 0 THEN 1 ELSE 2 * Pow2(n - 1)

\* RETRY_BASE_DELAY * (2 ** (attempt - 1))
backoff(a) == RETRY_BASE_DELAY * Pow2(a - 1)

\* resp.headers.get("Retry-After"): absent, or the text of the header
RetryAfterValues ==
    { None, <<>>, <<"2">>, <<"0", ".", "5">>, <<"-", "1">>,
      <<"n", "a", "n">>, <<"s", "o", "o", "n">> }

\* truth value of an optional string
truthy(s) == s # None /\ s # <<>>

\* float(s) raises ValueError (on the texts of RetryAfterValues)
float_raises(s) ==
    LET t == strip(s)
        u == IF t # <<>> /\ Head(t) \in {"-", "+"} THEN Tail(t) ELSE t
    IN  ~(IsNumber(u) \/ u = <<"n", "a", "n">>)

\* float(s) where it does not raise: a number or nan
float_signed(s) ==
    LET t == strip(s)
        u == IF t # <<>> /\ Head(t) \in {"-", "+"} THEN Tail(t) ELSE t
    IN  IF u = <<"n", "a", "n">> THEN NaN
        ELSE IF Head(t) = "-" THEN Num(0 - float(u)) ELSE Num(float(u))

\* the delay computed from the Retry-After header after the a-th failure
retry_delay(f, retry_after, a) ==
    IF f = "_request_with_retries"
    THEN IF truthy(retry_after)
         THEN (IF float_raises(retry_after) THEN Num(backoff(a))
               ELSE float_signed(retry_after))
         ELSE Num(backoff(a))
    ELSE IF truthy(retry_after) /\ isdigit(retry_after)
         THEN Num(float(retry_after))
         ELSE Num(backoff(a))

\* time.sleep(d) raises ValueError: d is nan or negative
sleep_raises(d) == IF isna(d) THEN TRUE ELSE d[1] < 0

InitRetry ==
    /\ pc = "request"
    /\ fn \in {"_request_with_retries", "request_with_retries"}
    /\ attempt = 0
    /\ resp = <<>>
    /\ delay = Num(0)
    /\ raised = "none"
    /\ outcomes = <<>>
    /\ CallIdle /\ PipeIdle /\ PageIdle

\* requests.request raises RequestException
TransportFailure ==
    /\ pc = "request"
    /\ outcomes' = Append(outcomes, "exception")
    /\ LET a == attempt + 1 IN
       /\ attempt' = a
       /\ IF exhausted(a)
          THEN pc' = "raise" /\ raised' = "RequestException" /\ delay' = delay
          ELSE pc' = "sleep" /\ raised' = raised /\ delay' = Num(backoff(a))
    /\ UNCHANGED <<fn, resp, callVars, pipeVars, pageVars>>

\* the response has a status of (429, 500, 502, 503, 504)
RetryableStatus ==
    /\ pc = "request"
    /\ \E status_code \in RETRYABLE, retry_after \in RetryAfterValues :
          /\ resp' = [status_code |-> status_code, retry_after |-> retry_after]
          /\ outcomes' = Append(outcomes, "retryable")
          /\ LET a == attempt + 1 IN
             /\ attempt' = a
             /\ IF exhausted(a) /\ raises_for_status(status_code)
                THEN pc' = "raise" /\ raised' = "HTTPError" /\ delay' = delay
                ELSE /\ pc' = "sleep" /\ raised' = raised
                     /\ delay' = retry_delay(fn, retry_after, a)
    /\ UNCHANGED <<fn, callVars, pipeVars, pageVars>>

\* any other response: raise_for_status(), then return resp
OtherStatus ==
    /\ pc = "request"
    /\ \E status_code \in Statuses \ RETRYABLE, retry_after \in RetryAfterValues :
          /\ resp' = [status_code |-> status_code, retry_after |-> retry_after]
          /\ outcomes' = Append(outcomes, "other")
          /\ IF raises_for_status(status_code)
             THEN pc' = "raise" /\ raised' = "HTTPError"
             ELSE pc' = "return" /\ raised' = raised
    /\ UNCHANGED <<fn, attempt, delay, callVars, pipeVars, pageVars>>

\* time.sleep(delay); continue
Sleep ==
    /\ pc = "sleep"
    /\ IF sleep_raises(delay)
       THEN pc' = "raise" /\ raised' = "ValueError"
       ELSE pc' = "request" /\ raised' = raised
    /\ UNCHANGED <<fn, attempt, resp, delay, outcomes, callVars, pipeVars, pageVars>>

NextRetry == TransportFailure \/ RetryableStatus \/ OtherStatus \/ Sleep

\* the helper is sequential code: a step that can be taken is taken
SpecRetry == InitRetry /\ [][NextRetry]_vars /\ WF_vars(NextRetry)

\* the statuses the claim calls retryable, and an error status (4xx, 5xx)
C11_Retryable == {429, 500, 502, 503, 504}
C11_IsError(status_code) == status_code >= 400

\* the requests that failed: by a transport exception or a retryable status
C11_Failures ==
    {i \in 1..Len(outcomes) : outcomes[i] \in {"exception", "retryable"}}

C11_Ended == pc \in {"return", "raise"}

C11_Safe ==
    /\ Len(outcomes) <= 6
    /\ attempt = Cardinality(C11_Failures)
    /\ pc = "return" =>
          /\ resp.status_code \notin C11_Retryable
          /\ ~C11_IsError(resp.status_code)
          /\ raised = "none"
    /\ attempt > 5 => pc = "raise" /\ raised \in {"RequestException", "HTTPError"}
    /\ pc = "raise" <=> raised # "none"

\* C11: whatever the outcomes of the remote call, the helper issues at most
\* MAX_RETRIES + 1 = 6 requests, counts transport exceptions and retryable
\* statuses on one counter, returns only a response whose status is neither
\* retryable nor an error, raises (never sleeps or requests again) once the
\* counter is above MAX_RETRIES, and ends: it returns or raises.
C11_RetriesBoundedAndEnds == []C11_Safe /\ <>C11_Ended

\* six requests failed, by transport exceptions and by retryable statuses,
\* and the helper raised on the sixth
C11_Witness ==
    /\ pc = "raise"
    /\ attempt = MAX_RETRIES + 1
    /\ Len(outcomes) = MAX_RETRIES + 1
    /\ \E i, j \in 1..Len(outcomes) :
          outcomes[i] = "exception" /\ outcomes[j] = "retryable"

====
